---- MODULE Spec2Model ----
(***************************************************************************)
(* SRTM Terrain Importer (src/__init__.py): the .hgt loader, the heightmap *)
(* normalisation, the tile geometry and the two import handlers, as a      *)
(* state machine over the host's scene data.                               *)
(*                                                                         *)
(* Numbers.  Elevation samples are 16-bit signed integers and keep their   *)
(* width (Wrap16).  A float that results from numpy's true division is a   *)
(* record: a fraction num/den with den > 0, or nan / inf / -inf.  Lengths  *)
(* in metres are integers (floor of the float the code computes) and       *)
(* cosines are in units of 1/10000.                                        *)
(***************************************************************************)
EXTENDS Integers, Sequences, FiniteSets

VARIABLES
    objects,      \* bpy.data.objects: the scene's objects, in creation order
    images,       \* number of images in bpy.data.images
    materials,    \* number of materials in bpy.data.materials
    active,       \* index in objects of the active object, 0 when none
    space_clip,   \* (clip_start, clip_end) of the 3D views, "default" until set
    call,         \* the last handler invocation and how it ended
    completed,    \* number of invocations that returned {'FINISHED'}
    heightmap,    \* the elevation grid last loaded (the local of that name)
    texture,      \* the image last created by create_heightmap_texture
    lat,          \* argument of the last get_tile_dimensions call
    dims          \* its result

vars == <<objects, images, materials, active, space_clip, call, completed,
          heightmap, texture, lat, dims>>

----------------------------------------------------------------------------
(* Bounds of the model *)

MaxSamples == 4     \* longest .hgt file of the import runs, in samples
MaxCalls == 2       \* handler invocations in one run
MaxSide == 2        \* largest grid side of the normalisation runs
MaxLat == 99        \* largest |latitude| of the tile geometry runs

----------------------------------------------------------------------------
(* Values *)

None == "None"

Range(s) == {s[i] : i \in 1..Len(s)}

\* np.int16 arithmetic wraps modulo 2^16
Wrap16(x) == ((x + 32768) % 65536) - 32768

NaN == [kind |-> "nan", num |-> 0, den |-> 1]

Inf(sign) == [kind |-> IF sign > 0 THEN "inf" ELSE "-inf", num |-> sign, den |-> 0]

Finite(n, d) == [kind |-> "finite", num |-> n, den |-> d]

\* numpy's `/` on int16 operands: both are converted to float64 and divided;
\* a zero divisor gives nan (0/0) or a signed infinity, with a warning only
TrueDivide(a, d) ==
    IF d = 0 THEN (IF a = 0 THEN NaN ELSE Inf(IF a > 0 THEN 1 ELSE -1))
    ELSE IF d > 0 THEN Finite(a, d)
    ELSE Finite(-a, -d)

----------------------------------------------------------------------------
(* get_tile_dimensions *)

EARTH_RADIUS == 6378137

\* math.pi as the fraction 355/113
PI_NUM == 355
PI_DEN == 113

COS_SCALE == 10000

\* floor(a*b/c) without leaving 32 bits
MulDiv(a, b, c) == a * (b \div c) + (a * (b % c)) \div c

\* round(10000 * cos(d degrees)), d = 0..180
CosTable ==
    << 10000,
       9998, 9994, 9986, 9976, 9962, 9945, 9925, 9903, 9877, 9848,
       9816, 9781, 9744, 9703, 9659, 9613, 9563, 9511, 9455, 9397,
       9336, 9272, 9205, 9135, 9063, 8988, 8910, 8829, 8746, 8660,
       8572, 8480, 8387, 8290, 8192, 8090, 7986, 7880, 7771, 7660,
       7547, 7431, 7314, 7193, 7071, 6947, 6820, 6691, 6561, 6428,
       6293, 6157, 6018, 5878, 5736, 5592, 5446, 5299, 5150, 5000,
       4848, 4695, 4540, 4384, 4226, 4067, 3907, 3746, 3584, 3420,
       3256, 3090, 2924, 2756, 2588, 2419, 2250, 2079, 1908, 1736,
       1564, 1392, 1219, 1045, 872, 698, 523, 349, 175, 0,
       -175, -349, -523, -698, -872, -1045, -1219, -1392, -1564, -1736,
       -1908, -2079, -2250, -2419, -2588, -2756, -2924, -3090, -3256, -3420,
       -3584, -3746, -3907, -4067, -4226, -4384, -4540, -4695, -4848, -5000,
       -5150, -5299, -5446, -5592, -5736, -5878, -6018, -6157, -6293, -6428,
       -6561, -6691, -6820, -6947, -7071, -7193, -7314, -7431, -7547, -7660,
       -7771, -7880, -7986, -8090, -8192, -8290, -8387, -8480, -8572, -8660,
       -8746, -8829, -8910, -8988, -9063, -9135, -9205, -9272, -9336, -9397,
       -9455, -9511, -9563, -9613, -9659, -9703, -9744, -9781, -9816, -9848,
       -9877, -9903, -9925, -9945, -9962, -9976, -9986, -9994, -9998, -10000 >>

\* math.cos(math.radians(deg)) in units of 1/COS_SCALE; the cosine is even
\* and has period 360 degrees
cos_degrees(deg) ==
    LET a == (IF deg < 0 THEN -deg ELSE deg) % 360
    IN  CosTable[(IF a <= 180 THEN a ELSE 360 - a) + 1]

\* a mutant: the east-west and north-south extents returned in the other order
get_tile_dimensions_swapped(lat_deg) ==
    LET ns_distance == MulDiv(PI_NUM, EARTH_RADIUS, PI_DEN * 180)
        ew_distance == (ns_distance * cos_degrees(lat_deg)) \div COS_SCALE
    IN  <<ns_distance, ew_distance>>

get_tile_dimensions(lat_deg) ==
    LET ns_distance == MulDiv(PI_NUM, EARTH_RADIUS, PI_DEN * 180)
        ew_distance == (ns_distance * cos_degrees(lat_deg)) \div COS_SCALE
    IN  <<ew_distance, ns_distance>>

----------------------------------------------------------------------------
(* create_heightmap_texture *)

NoGrid == [size |-> -1, data |-> <<>>]

Grid(size, data) == [size |-> size, data |-> data]

\* ndarray.min() / ndarray.max() of a grid with at least one sample
ArrayMin(data) == CHOOSE x \in Range(data) : \A y \in Range(data) : x <= y

ArrayMax(data) == CHOOSE x \in Range(data) : \A y \in Range(data) : x >= y

\* a mutant: a flat tile is given the all-zero normalised grid
normalize_flat_zero(hm) ==
    LET height_min == ArrayMin(hm.data)
        height_max == ArrayMax(hm.data)
    IN  [i \in 1..Len(hm.data) |->
            IF height_max = height_min THEN Finite(0, 1)
            ELSE TrueDivide(Wrap16(hm.data[i] - height_min),
                            Wrap16(height_max - height_min))]

\* heightmap_normalized = (heightmap - height_min) / (height_max - height_min):
\* both differences are int16, the quotient is float64
normalize(hm) ==
    LET height_min == ArrayMin(hm.data)
        height_max == ArrayMax(hm.data)
    IN  [i \in 1..Len(hm.data) |->
            TrueDivide(Wrap16(hm.data[i] - height_min),
                       Wrap16(height_max - height_min))]

\* pixels.extend([heightmap_normalized[y, x], 0, 0, 1]) for every y, x
Pixels(normalized) ==
    [j \in 1..(4 * Len(normalized)) |->
        CASE j % 4 = 1 -> normalized[(j + 3) \div 4]
          [] j % 4 = 0 -> 1
          [] OTHER -> 0]

NoTexture == [width |-> -1, height |-> -1, pixels |-> <<>>]

create_heightmap_texture(hm) ==
    [width |-> hm.size, height |-> hm.size, pixels |-> Pixels(normalize(hm))]

\* the red channel of a texture: the normalised heightmap it was built from
RedChannel(tex) == [i \in 1..(Len(tex.pixels) \div 4) |-> tex.pixels[4 * i - 3]]

----------------------------------------------------------------------------
(* File names *)

DigitChars == <<"0", "1", "2", "3", "4", "5", "6", "7", "8", "9">>

Digits == Range(DigitChars)

DigitValue(c) == (CHOOSE i \in 1..10 : DigitChars[i] = c) - 1

Ext == <<".", "h", "g", "t">>

\* s[a:b] of Python: 0-based, end excluded, clipped to the string
Slice(s, a, b) == SubSeq(s, a + 1, IF b < Len(s) THEN b ELSE Len(s))

\* os.path.basename: what follows the last "/"
basename_of(filepath) ==
    LET slashes == {i \in 1..Len(filepath) : filepath[i] = "/"}
        last == IF slashes = {} THEN 0
                ELSE CHOOSE i \in slashes : \A j \in slashes : j <= i
    IN  SubSeq(filepath, last + 1, Len(filepath))

RECURSIVE DecimalValue(_)
DecimalValue(s) ==
    IF s = <<>> THEN 0
    ELSE 10 * DecimalValue(SubSeq(s, 1, Len(s) - 1)) + DigitValue(s[Len(s)])

\* int(s) of Python on a string of sign and digit characters: an optional
\* sign, then at least one decimal digit; anything else raises ValueError
PyInt(s) ==
    LET signed == s /= <<>> /\ s[1] \in {"+", "-"}
        body == IF signed THEN Tail(s) ELSE s
        ok == body /= <<>> /\ \A i \in 1..Len(body) : body[i] \in Digits
    IN  [ok |-> ok,
         value |-> IF ~ok THEN 0
                   ELSE IF signed /\ s[1] = "-" THEN -DecimalValue(body)
                   ELSE DecimalValue(body)]

\* a mutant: the sign test of the latitude looks for the other hemisphere
extract_coordinates_north_negated(basename) ==
    LET la == PyInt(Slice(basename, 1, 3))
        lo == PyInt(Slice(basename, 4, 7))
    IN  [ok |-> la.ok /\ lo.ok,
         lat |-> IF basename /= <<>> /\ basename[1] = "N" THEN -la.value ELSE la.value,
         lon |-> IF Len(basename) >= 4 /\ basename[4] = "W" THEN -lo.value ELSE lo.value]

\* a mutant: the two slices of the name exchanged
extract_coordinates_slices_swapped(basename) ==
    LET la == PyInt(Slice(basename, 4, 7))
        lo == PyInt(Slice(basename, 1, 3))
    IN  [ok |-> la.ok /\ lo.ok,
         lat |-> IF basename /= <<>> /\ basename[1] = "S" THEN -la.value ELSE la.value,
         lon |-> IF Len(basename) >= 4 /\ basename[4] = "W" THEN -lo.value ELSE lo.value]

\* lat = int(basename[1:3]); lon = int(basename[4:7]); negated for 'S' and 'W'.
\* ok is FALSE when one of the int() calls raises ValueError.
extract_coordinates(basename) ==
    LET la == PyInt(Slice(basename, 1, 3))
        lo == PyInt(Slice(basename, 4, 7))
    IN  [ok |-> la.ok /\ lo.ok,
         lat |-> IF basename /= <<>> /\ basename[1] = "S" THEN -la.value ELSE la.value,
         lon |-> IF Len(basename) >= 4 /\ basename[4] = "W" THEN -lo.value ELSE lo.value]

----------------------------------------------------------------------------
(* .hgt files *)

\* the two bytes of a sample, most significant first
ToBytes(sample) == LET u == sample % 65536 IN <<u \div 256, u % 256>>

RECURSIVE Encode(_)
Encode(samples) ==
    IF samples = <<>> THEN <<>>
    ELSE ToBytes(Head(samples)) \o Encode(Tail(samples))

MissingFile == [exists |-> FALSE, bytes |-> <<>>]

HgtFile(samples) == [exists |-> TRUE, bytes |-> Encode(samples)]

\* np.fromfile(filepath, dtype='>i2'): the file's bytes, two by two, as
\* big-endian signed 16-bit integers
fromfile(file) ==
    [i \in 1..(Len(file.bytes) \div 2) |->
        Wrap16(256 * file.bytes[2 * i - 1] + file.bytes[2 * i])]

\* int(np.sqrt(n))
int_sqrt(n) == CHOOSE k \in 0..n : k * k <= n /\ (k + 1) * (k + 1) > n

\* a mutant: the data cut to size*size samples before it is reshaped
reshape_truncating(data, size) ==
    [ok |-> TRUE, grid |-> Grid(size, SubSeq(data, 1, size * size))]

\* data.reshape((size, size)): ValueError unless data has size*size samples
reshape(data, size) ==
    IF Len(data) = size * size
    THEN [ok |-> TRUE, grid |-> Grid(size, data)]
    ELSE [ok |-> FALSE, grid |-> NoGrid]

----------------------------------------------------------------------------
(* create_terrain_from_hgt *)

\* custom properties of an object: a set of <<key, value>>
HasProp(o, key) == \E p \in o.props : p[1] = key

Prop(o, key) == (CHOOSE p \in o.props : p[1] = key)[2]

\* a mutant: the plane placed with latitude and longitude exchanged
place_plane_swapped(la, lo, width, height) ==
    [location |-> <<width * la, height * lo, 0>>,
     scale |-> <<width, height, 1>>,
     modifiers |-> <<"SUBSURF">>,
     materials |-> 0,
     props |-> {}]

\* primitive_plane_add(size=1), then location.x/.y and scale.x/.y assigned,
\* and the SUBSURF modifier added
place_plane(la, lo, width, height) ==
    [location |-> <<width * lo, height * la, 0>>,
     scale |-> <<width, height, 1>>,
     modifiers |-> <<"SUBSURF">>,
     materials |-> 0,
     props |-> {}]

\* plane.data.materials.append(material) and the metadata stored on the plane
finish_plane(plane, la, lo, dem_min, dem_max, width, height) ==
    [plane EXCEPT
        !.materials = 1,
        !.props = {<<"latitude", la>>, <<"longitude", lo>>,
                   <<"dem_min", dem_min>>, <<"dem_max", dem_max>>,
                   <<"tile_width", width>>, <<"tile_height", height>>}]

NoPlane == [location |-> <<0, 0, 0>>, scale |-> <<1, 1, 1>>, modifiers |-> <<>>,
            materials |-> 0, props |-> {}]

Outcome(raised, hm, coords, d, added, plane, tex, mats) ==
    [raised |-> raised, heightmap |-> hm, coords |-> coords, dims |-> d,
     plane_added |-> added, plane |-> plane, texture |-> tex, materials |-> mats]

NoCoords == [ok |-> FALSE, lat |-> 0, lon |-> 0]

\* The function, statement by statement.  raised is the exception that leaves
\* it (None when it returns the plane); the other fields are what it had
\* built by then.
create_terrain_from_hgt(filepath, file) ==
    IF ~file.exists
    THEN Outcome("FileNotFoundError", NoGrid, NoCoords, <<>>, FALSE, NoPlane, NoTexture, 0)
    ELSE
    LET data == fromfile(file)
        size == int_sqrt(Len(data))
        shaped == reshape(data, size)
    IN  IF ~shaped.ok
        THEN Outcome("ValueError", NoGrid, NoCoords, <<>>, FALSE, NoPlane, NoTexture, 0)
        ELSE
        LET hm == shaped.grid
            coords == extract_coordinates(basename_of(filepath))
        IN  IF ~coords.ok
            THEN Outcome("ValueError", hm, NoCoords, <<>>, FALSE, NoPlane, NoTexture, 0)
            ELSE
            LET d == get_tile_dimensions(coords.lat)
                width == d[1]
                height == d[2]
                plane == place_plane(coords.lat, coords.lon, width, height)
            IN  IF hm.data = <<>>
                THEN \* heightmap.min() of an empty array raises ValueError
                     Outcome("ValueError", hm, coords, d, TRUE, plane, NoTexture, 0)
                ELSE
                LET dem_min == ArrayMin(hm.data)
                    dem_max == ArrayMax(hm.data)
                    height_texture == create_heightmap_texture(hm)
                IN  Outcome(None, hm, coords, d, TRUE,
                            finish_plane(plane, coords.lat, coords.lon,
                                         dem_min, dem_max, width, height),
                            height_texture, 1)

----------------------------------------------------------------------------
(* The handlers *)

NoCall == [n |-> 0, handler |-> None, filepath |-> <<>>, exists |-> FALSE,
           count |-> 0, result |-> None]

\* setup_3d_views(): clip_start = 1, clip_end = 1e+06 in every 3D view
setup_3d_views == <<1, 1000000>>

\* what an invocation leaves in the scene, whichever handler ran it
Import(handler, filepath, file) ==
    \E r \in {create_terrain_from_hgt(filepath, file)} :
        /\ call.n < MaxCalls
        /\ objects' = IF r.plane_added THEN Append(objects, r.plane) ELSE objects
        /\ active' = IF r.plane_added THEN Len(objects) + 1 ELSE active
        /\ images' = images + (IF r.texture = NoTexture THEN 0 ELSE 1)
        /\ materials' = materials + r.materials
        /\ heightmap' = r.heightmap
        /\ texture' = r.texture
        /\ lat' = IF r.dims = <<>> THEN lat ELSE r.coords.lat
        /\ dims' = IF r.dims = <<>> THEN dims ELSE r.dims
        /\ completed' = completed + (IF r.raised = None THEN 1 ELSE 0)
        /\ call' = [n |-> call.n + 1, handler |-> handler, filepath |-> filepath,
                    exists |-> file.exists,
                    count |-> Len(file.bytes) \div 2,
                    result |-> IF r.raised = None THEN "FINISHED" ELSE r.raised]

\* ImportHGTDisplacementOperator.execute: the views are set up before the
\* import, and nothing catches what the import raises
execute(filepath, file) ==
    /\ space_clip' = setup_3d_views
    /\ Import("execute", filepath, file)

\* HGTImportFileHandler.load: the import with the default options
load(filepath, file) ==
    /\ UNCHANGED space_clip
    /\ Import("load", filepath, file)

\* create_heightmap_texture called on a grid
texture_call ==
    /\ heightmap /= NoGrid
    /\ texture = NoTexture
    /\ texture' = create_heightmap_texture(heightmap)
    /\ images' = images + 1
    /\ UNCHANGED <<objects, materials, active, space_clip, call, completed,
                   heightmap, lat, dims>>

\* get_tile_dimensions called on a latitude
tile_call ==
    /\ dims = <<>>
    /\ dims' = get_tile_dimensions(lat)
    /\ UNCHANGED <<objects, images, materials, active, space_clip, call,
                   completed, heightmap, texture, lat>>

----------------------------------------------------------------------------
(* Inputs *)

\* elevations of the normalisation runs: the void value of SRTM data, a
\* depression and a summit
SampleValues == {-32768, -500, 8848}

\* tiles of the import runs: the flat tiles of two elevations and, from two
\* samples on, the tile whose first sample alone is the low one
ImportTiles(n) ==
    {[i \in 1..n |-> v] : v \in {-500, 8848}}
        \cup {[i \in 1..n |-> IF i = 1 THEN -500 ELSE 8848]}

SquareGrids ==
    UNION {{Grid(side, d) : d \in [1..(side * side) -> SampleValues]} : side \in 1..MaxSide}

HgtFiles == {MissingFile} \cup {HgtFile(s) : s \in UNION {ImportTiles(n) : n \in 0..MaxSamples}}

TileName(ns, d1, d2, ew, d3, d4, d5) == <<ns, d1, d2, ew, d3, d4, d5>> \o Ext

FilePaths ==
    { <<"/", "d", "/">> \o TileName("N", "3", "7", "W", "1", "2", "2"),
      TileName("N", "3", "7", "W", "1", "2", "1"),
      TileName("S", "9", "9", "E", "9", "9", "9"),
      <<"d", "e", "m">> \o Ext }

\* digits of the names of the naming runs: they spell 00, 37, 90, 91, 99 and
\* 000, 122, 180, 181, 999 among others
NameDigits == {"0", "1", "2", "3", "7", "8", "9"}

\* the names of the form [NS]DD[EW]DDD.hgt over these digits
TileNames ==
    {TileName(ns, d1, d2, ew, d3, d4, d5) :
        ns \in {"N", "S"}, d1 \in NameDigits, d2 \in NameDigits,
        ew \in {"E", "W"}, d3 \in NameDigits, d4 \in NameDigits, d5 \in NameDigits}

OneSampleFile == HgtFile(<<8848>>)

----------------------------------------------------------------------------
(* Specifications *)

Init ==
    /\ objects = <<>>
    /\ images = 0
    /\ materials = 0
    /\ active = 0
    /\ space_clip = <<"default", "default">>
    /\ call = NoCall
    /\ completed = 0
    /\ heightmap = NoGrid
    /\ texture = NoTexture
    /\ lat = 0
    /\ dims = <<>>

\* imports of files of every length and content, by either handler
Next ==
    \E filepath \in FilePaths, file \in HgtFiles :
        \/ execute(filepath, file)
        \/ load(filepath, file)

Spec == Init /\ [][Next]_vars

\* one import of a one-sample tile under every well-formed name
NextNames ==
    /\ call = NoCall
    /\ \E filepath \in TileNames :
        \/ execute(filepath, OneSampleFile)
        \/ load(filepath, OneSampleFile)

SpecNames == Init /\ [][NextNames]_vars

\* create_heightmap_texture on every square grid
InitTexture ==
    /\ objects = <<>>
    /\ images = 0
    /\ materials = 0
    /\ active = 0
    /\ space_clip = <<"default", "default">>
    /\ call = NoCall
    /\ completed = 0
    /\ heightmap \in SquareGrids
    /\ texture = NoTexture
    /\ lat = 0
    /\ dims = <<>>

SpecTexture == InitTexture /\ [][texture_call]_vars

\* get_tile_dimensions on every latitude
InitTile ==
    /\ objects = <<>>
    /\ images = 0
    /\ materials = 0
    /\ active = 0
    /\ space_clip = <<"default", "default">>
    /\ call = NoCall
    /\ completed = 0
    /\ heightmap = NoGrid
    /\ texture = NoTexture
    /\ lat \in (-MaxLat)..MaxLat
    /\ dims = <<>>

SpecTile == InitTile /\ [][tile_call]_vars

----------------------------------------------------------------------------
(* Properties *)

PerfectSquare(n) == \E k \in 0..n : k * k = n

Called == call.n > 0

Finished == Called /\ call.result = "FINISHED"

\* the object the last invocation added
LastObject == objects[Len(objects)]

\* the normalised heightmap of the texture last created
Normalized == RedChannel(texture)

Flat(hm) == \A i, j \in 1..Len(hm.data) : hm.data[i] = hm.data[j]

InUnitInterval(v) == v.kind = "finite" /\ 0 <= v.num /\ v.num <= v.den

\* C1: a file whose number of samples is not a perfect square is rejected by
\* the loader (ValueError from reshape, no heightmap grid); a file of k*k
\* samples is accepted as a grid of side k.
C1_NonSquareCountRejected ==
    (Called /\ call.exists) =>
        /\ ~PerfectSquare(call.count) =>
              call.result = "ValueError" /\ heightmap = NoGrid
        /\ PerfectSquare(call.count) =>
              /\ heightmap /= NoGrid
              /\ heightmap.size * heightmap.size = call.count
              /\ Len(heightmap.data) = call.count

\* C1 witness: a file of two samples was imported and rejected.
C1_Witness ==
    /\ Called /\ call.exists /\ call.count = 2
    /\ call.result = "ValueError" /\ heightmap = NoGrid

\* C2: an import of a malformed file (sample count not a perfect square) ends
\* in a failure status returned by the handler, not in an exception that
\* leaves it.
C2_MalformedFileReported ==
    (Called /\ call.exists /\ ~PerfectSquare(call.count)) =>
        call.result = "CANCELLED"

\* C3: every value of the normalised heightmap lies in [0,1], the subtractions
\* being 16-bit.  Stated for the grids that are not flat: a flat grid divides
\* by zero (C8).
C3_NormalizedInUnitInterval ==
    (texture /= NoTexture /\ ~Flat(heightmap)) =>
        \A i \in 1..Len(Normalized) : InUnitInterval(Normalized[i])

\* C4: for a grid that is not flat the normalised heightmap has minimum
\* exactly 0, at the samples equal to the grid's minimum, and maximum exactly
\* 1, at the samples equal to the grid's maximum.
C4_NormalizedMinZeroMaxOne ==
    (texture /= NoTexture /\ ~Flat(heightmap)) =>
        LET n == Normalized
            I == 1..Len(n)
        IN  /\ \A i \in I : n[i].kind = "finite"
            /\ \A i \in I : n[i].num >= 0 /\ n[i].num <= n[i].den
            /\ \A i \in I : heightmap.data[i] = ArrayMin(heightmap.data) => n[i].num = 0
            /\ \A i \in I : heightmap.data[i] = ArrayMax(heightmap.data) => n[i].num = n[i].den

\* floor(pi * 6378137 / 180), in metres
NorthSouthMetres == 111319

\* C5: get_tile_dimensions(lat) returns (east-west, north-south) where
\* north-south is the constant pi * 6378137 / 180 for every latitude and
\* east-west is that constant times cos(lat): equal to north-south at
\* latitude 0 and never more than north-south.
C5_TileDimensions ==
    (dims /= <<>>) =>
        /\ Len(dims) = 2
        /\ dims[2] = NorthSouthMetres
        /\ dims[1] = (NorthSouthMetres * cos_degrees(lat)) \div COS_SCALE
        /\ (lat = 0 => dims[1] = dims[2])
        /\ dims[1] <= dims[2]

\* C5 witness: the tile at latitude 45 is 78713 m by 111319 m.
C5_Witness == lat = 45 /\ dims = <<78713, 111319>>

\* the numbers a name of the form [NS]DD[EW]DDD.hgt carries
NameDD(name) == 10 * DigitValue(name[2]) + DigitValue(name[3])

NameDDD(name) ==
    100 * DigitValue(name[5]) + 10 * DigitValue(name[6]) + DigitValue(name[7])

IsTileName(name) ==
    /\ Len(name) = 11
    /\ name[1] \in {"N", "S"} /\ name[4] \in {"E", "W"}
    /\ \A i \in {2, 3, 5, 6, 7} : name[i] \in Digits
    /\ SubSeq(name, 8, 11) = Ext

\* C6: for a file named [NS]DD[EW]DDD.hgt the latitude is DD, negated exactly
\* when the first letter is S, and the longitude is DDD, negated exactly when
\* the fourth letter is W; a completed import stores them as the object's
\* "latitude" and "longitude".
C6_CoordinatesFromName ==
    (Finished /\ IsTileName(call.filepath)) =>
        LET name == call.filepath
        IN  /\ HasProp(LastObject, "latitude")
            /\ HasProp(LastObject, "longitude")
            /\ Prop(LastObject, "latitude") =
                  (IF name[1] = "S" THEN -NameDD(name) ELSE NameDD(name))
            /\ Prop(LastObject, "longitude") =
                  (IF name[4] = "W" THEN -NameDDD(name) ELSE NameDDD(name))

\* C6 witness: N37W122.hgt was imported as latitude 37, longitude -122.
C6_Witness ==
    /\ Finished
    /\ call.filepath = TileName("N", "3", "7", "W", "1", "2", "2")
    /\ Prop(LastObject, "latitude") = 37
    /\ Prop(LastObject, "longitude") = -122

\* C7 as claimed: after a completed import the latitude is in [-90,90] and the
\* longitude in [-180,180], whatever numbers the file name carries.
C7_CoordinatesInGeographicRange ==
    (Finished /\ IsTileName(call.filepath)) =>
        /\ Prop(LastObject, "latitude") \in (-90)..90
        /\ Prop(LastObject, "longitude") \in (-180)..180

\* C7 as amended: after a completed import the latitude is in [-99,99] and
\* the longitude in [-999,999]; they are in [-90,90] and [-180,180] exactly
\* when the name's two-digit number is at most 90 and its three-digit number
\* at most 180.
C7_CoordinatesInDigitRange ==
    (Finished /\ IsTileName(call.filepath)) =>
        LET la == Prop(LastObject, "latitude")
            lo == Prop(LastObject, "longitude")
        IN  /\ la \in (-99)..99
            /\ lo \in (-999)..999
            /\ (la \in (-90)..90) <=> (NameDD(call.filepath) <= 90)
            /\ (lo \in (-180)..180) <=> (NameDDD(call.filepath) <= 180)

\* C7 witness: S99E999.hgt was imported as latitude -99, longitude 999.
C7_Witness ==
    /\ Finished
    /\ call.filepath = TileName("S", "9", "9", "E", "9", "9", "9")
    /\ Prop(LastObject, "latitude") = -99
    /\ Prop(LastObject, "longitude") = 999

\* C8: for a flat tile every sample is divided by zero and no policy replaces
\* the result: every normalised value is nan (0/0), not a value of [0,1].
C8_FlatTileUndefined ==
    (texture /= NoTexture /\ Flat(heightmap)) =>
        /\ Len(Normalized) = Len(heightmap.data)
        /\ \A i \in 1..Len(Normalized) :
              Normalized[i] = NaN /\ ~InUnitInterval(Normalized[i])

\* C8 witness: the texture of a flat 2 x 2 tile was created.
C8_Witness ==
    /\ texture /= NoTexture
    /\ heightmap.size = 2
    /\ Flat(heightmap)
    /\ Normalized[4] = NaN

\* the objects of the scene that a completed import stored its metadata on
Terrains == {i \in 1..Len(objects) : HasProp(objects[i], "latitude")}

\* C9: after a completed import the terrain's X and Y scale are the
\* (east-west, north-south) extent of its latitude, its location is
\* (east-west * longitude, north-south * latitude), and "tile_width" and
\* "tile_height" hold the same extent; so two tiles of one latitude and
\* adjacent longitudes lie one tile width apart.
C9_RealWorldPlacement ==
    /\ \A i \in Terrains :
        LET o == objects[i]
            la == Prop(o, "latitude")
            lo == Prop(o, "longitude")
            extent == get_tile_dimensions(la)
        IN  /\ o.scale[1] = extent[1] /\ o.scale[2] = extent[2]
            /\ o.location[1] = extent[1] * lo
            /\ o.location[2] = extent[2] * la
            /\ Prop(o, "tile_width") = extent[1]
            /\ Prop(o, "tile_height") = extent[2]
    /\ \A i, j \in Terrains :
        (/\ Prop(objects[i], "latitude") = Prop(objects[j], "latitude")
         /\ Prop(objects[j], "longitude") = Prop(objects[i], "longitude") + 1)
            => /\ objects[j].location[1] - objects[i].location[1]
                    = Prop(objects[i], "tile_width")
               /\ objects[j].location[2] = objects[i].location[2]
    /\ Finished => Len(objects) \in Terrains

\* C9 witness: the tiles N37W122 and N37W121 are both in the scene.
C9_Witness ==
    \E i, j \in Terrains :
        /\ Prop(objects[i], "latitude") = 37 /\ Prop(objects[j], "latitude") = 37
        /\ Prop(objects[i], "longitude") = -122
        /\ Prop(objects[j], "longitude") = -121
        /\ objects[i].scale[1] > 0

\* C10: the scene holds as many terrain objects as invocations completed: an
\* invocation that fails adds no object, image or material.
C10_FailedImportAddsNothing ==
    /\ Len(objects) = completed
    /\ images = completed
    /\ materials = completed

====
